---- MODULE Spec2Model ----
(***************************************************************************)
(* Ledger replay of VPsomak/HypothesisTask: dataStructures.Entity and      *)
(* ledgerParser.Ledger.                                                    *)
(*                                                                         *)
(* A Ledger holds a list of Entity objects (name, type, balance) and the   *)
(* name of a transactions CSV.  getBalanceAtDate re-reads the CSV on every *)
(* call and applies its rows, in file order, to the Entity objects of the  *)
(* Ledger, until the first row dated after the requested date.             *)
(*                                                                         *)
(* Balances and amounts are Python floats in the source; they are modelled *)
(* as integers (hundredths), so the arithmetic of the model is exact.      *)
(* CSV rows are well formed (date and amount parse).  Each iteration of    *)
(* the loop of getBalanceAtDate is one step, so the states in the middle   *)
(* of a replay are states of the model.                                    *)
(***************************************************************************)
EXTENDS Integers, Sequences, FiniteSets

\* ------------------------------------------------------------------ bounds
MaxRows == 2
MaxEntities == 2
MaxCalls == 2

\* ------------------------------------------------------------ input domains
\* Python's None (an Entity built from a transactions file has type None).
None == "<None>"

\* Names in the sender and receiver columns of the transactions file, and
\* the name column of the entities file, row by row.
SenderNames == {"alice", "bob"}
ReceiverNames == {"ALICE", "bob"}
EntityNames == <<"Alice", "bob", "Carol">>

\* The type column of an entities file is a CSV string, possibly empty.
CsvTypes == {"person", "company", ""}
StartingBalances == {100}
Amounts == {-5, 30}
Dates == {1, 2}

\* str.lower() on the names of the model.
lower(name) ==
    CASE name \in {"Alice", "ALICE"} -> "alice"
      [] name \in {"Bob", "BOB"} -> "bob"
      [] name \in {"Carol", "CAROL"} -> "carol"
      [] OTHER -> name

\* Entity.allowedToPay, the class attribute.
allowedToPayAnyone == {"person", None, "company", ""}

allowedToPayPersons == {"person"}

allowedToPay == {"person", None}

\* Entity.__init__
Entity(name, type, balance) == [name |-> name, type |-> type, balance |-> balance]

\* The data rows of a transactions CSV that carry the amount a.
Rows(a) == [date : Dates, sender : SenderNames, receiver : ReceiverNames, amount : {a}]

SeqsUpTo(S, n) == UNION {[1..k -> S] : k \in 0..n}

\* Contents of a transactions CSV (header row left out), in any date order;
\* the rows of one file carry the same amount.
LedgerFiles == UNION {SeqsUpTo(Rows(a), MaxRows) : a \in Amounts}

\* Contents of an entities CSV: the first n names of EntityNames, any types.
EntityFiles ==
    UNION {{f \in [1..n -> [name : {EntityNames[i] : i \in 1..n},
                            type : CsvTypes,
                            startingBalance : StartingBalances]] :
              \A i \in 1..n : f[i].name = EntityNames[((i - 1) % Len(EntityNames)) + 1]} :
           n \in 1..MaxEntities}

\* ------------------------------------------------------------------ helpers
\* Entity.parseEntities(entitiesFile): one Entity per row, in file order.
parseEntitiesFile(ef) ==
    [i \in 1..Len(ef) |-> Entity(ef[i].name, ef[i].type, ef[i].startingBalance)]

\* Entity.parseEntities(None, transactionsFile): for every row an Entity for
\* the sender and an Entity for the receiver, type None and balance 0.
parseTransactionsFile(lf) ==
    [i \in 1..(2 * Len(lf)) |->
        IF i % 2 = 1 THEN Entity(lf[(i + 1) \div 2].sender, None, 0)
                     ELSE Entity(lf[i \div 2].receiver, None, 0)]

getEntityByNameExact(ents, name) ==
    LET hits == {i \in 1..Len(ents) : ents[i].name = name}
    IN IF hits = {} THEN 0 ELSE CHOOSE i \in hits : \A j \in hits : i <= j

getEntityByNameOrFirst(ents, name) ==
    LET hits == {i \in 1..Len(ents) : lower(ents[i].name) = lower(name)}
    IN IF hits = {} THEN (IF Len(ents) > 0 THEN 1 ELSE 0)
       ELSE CHOOSE i \in hits : \A j \in hits : i <= j

\* Ledger.getEntityByName: index of the first entity whose lowered name is
\* the lowered argument, 0 for the None it returns when there is none.
getEntityByName(ents, name) ==
    LET hits == {i \in 1..Len(ents) : lower(ents[i].name) = lower(name)}
    IN IF hits = {} THEN 0 ELSE CHOOSE i \in hits : \A j \in hits : i <= j

\* pay refusing an amount above the balance; pay crediting every other entity.
payOverdraftChecked(ents, s, r, amount) ==
    IF ents[s].type \in allowedToPay
    THEN IF r = 0
         THEN [raised |-> "InvalidReceiver", entities |-> ents]
         ELSE IF amount > ents[s].balance
         THEN [raised |-> "InsufficientBalance", entities |-> ents]
         ELSE LET credited == [ents EXCEPT ![r].balance = @ + amount]
              IN [raised |-> "",
                  entities |-> [credited EXCEPT ![s].balance = ents[s].balance - amount]]
    ELSE [raised |-> "PayerNotAllowed", entities |-> ents]

payCreditAll(ents, s, r, amount) ==
    IF ents[s].type \in allowedToPay
    THEN IF r = 0
         THEN [raised |-> "InvalidReceiver", entities |-> ents]
         ELSE [raised |-> "",
               entities |-> [i \in 1..Len(ents) |->
                   IF i = s THEN [ents[i] EXCEPT !.balance = ents[s].balance - amount]
                   ELSE [ents[i] EXCEPT !.balance = @ + amount]]]
    ELSE [raised |-> "PayerNotAllowed", entities |-> ents]

\* pay with the debit left out, and pay debiting before it credits.
payNoDebit(ents, s, r, amount) ==
    IF ents[s].type \in allowedToPay
    THEN IF r = 0
         THEN [raised |-> "InvalidReceiver", entities |-> ents]
         ELSE [raised |-> "", entities |-> [ents EXCEPT ![r].balance = @ + amount]]
    ELSE [raised |-> "PayerNotAllowed", entities |-> ents]

payEagerDebit(ents, s, r, amount) ==
    IF ents[s].type \in allowedToPay
    THEN LET debited == [ents EXCEPT ![s].balance = @ - amount]
         IN IF r = 0
            THEN [raised |-> "InvalidReceiver", entities |-> debited]
            ELSE [raised |-> "", entities |-> [debited EXCEPT ![r].balance = @ + amount]]
    ELSE [raised |-> "PayerNotAllowed", entities |-> ents]

\* Entity.pay, on the entity list: s is the paying entity, r the receiver
\* (0 for None).  The statements are taken in the order of the source.
pay(ents, s, r, amount) ==
    IF ents[s].type \in allowedToPay
    THEN LET uncommitedBalance == ents[s].balance - amount
         IN IF r = 0
            THEN [raised |-> "InvalidReceiver", entities |-> ents]
            ELSE LET credited == [ents EXCEPT ![r].balance = @ + amount]
                 IN [raised |-> "",
                     entities |-> [credited EXCEPT ![s].balance = uncommitedBalance]]
    ELSE [raised |-> "PayerNotAllowed", entities |-> ents]

\* The test of getBalanceAtDate on a row's date: the row is applied.
dueReversed(currentDate, d) == currentDate >= d

dueStrict(currentDate, d) == currentDate < d

due(currentDate, d) == currentDate <= d

snapshotReversed(ents) ==
    [i \in 1..Len(ents) |-> [name |-> ents[Len(ents) + 1 - i].name,
                             balance |-> ents[Len(ents) + 1 - i].balance]]

\* The list comprehension of the return statement of getBalanceAtDate.
snapshot(ents) ==
    [i \in 1..Len(ents) |-> [name |-> ents[i].name, balance |-> ents[i].balance]]

NoLast == [row |-> 0, sender |-> 0, receiver |-> 0, amount |-> 0, before |-> <<>>,
           outcome |-> "none"]

\* -------------------------------------------------------------------- state
VARIABLES
    parsed,       \* FALSE while Ledger.entities and Ledger.ledgerFile are None
    entities,     \* Ledger.entities: the sequence of Entity objects
    ledgerFile,   \* the data rows of the CSV that Ledger.ledgerFile names
    pc,           \* "Idle", "Replaying", "Returned", "Raised"
    date,         \* the date argument of the running or last getBalanceAtDate
    rowIndex,     \* the data row the loop of getBalanceAtDate is at
    result,       \* what the last getBalanceAtDate returned: <<>> for None,
                  \* <<[date, balances]>> for the one-key dict
    raised,       \* what the last getBalanceAtDate raised ("": nothing)
    registered,   \* history: the entities as the last parse built them
    builtFrom,    \* history: the file the last parse built them from
    start,        \* history: the entities when the running/last call began
    applied,      \* history: rows the running/last call applied as transfers
    last,         \* history: the row the loop handled last, and how
    log           \* history: the finished replays since the files were chosen

vars == <<parsed, entities, ledgerFile, pc, date, rowIndex, result, raised,
          registered, builtFrom, start, applied, last, log>>

\* Ledger.__init__
Init ==
    /\ parsed = FALSE
    /\ entities = <<>>
    /\ ledgerFile = <<>>
    /\ pc = "Idle"
    /\ date = 0
    /\ rowIndex = 0
    /\ result = <<>>
    /\ raised = ""
    /\ registered = <<>>
    /\ builtFrom = ""
    /\ start = <<>>
    /\ applied = <<>>
    /\ last = NoLast
    /\ log = <<>>

Fresh(ents, lf) ==
    /\ parsed' = TRUE
    /\ entities' = ents
    /\ ledgerFile' = lf
    /\ registered' = ents
    /\ pc' = "Idle"
    /\ date' = 0
    /\ rowIndex' = 0
    /\ result' = <<>>
    /\ raised' = ""
    /\ start' = <<>>
    /\ applied' = <<>>
    /\ last' = NoLast

\* Ledger.parseLedger(ledgerFile): the registry is built from the
\* transactions file itself.
parseLedger ==
    /\ pc # "Replaying"
    /\ ~parsed
    /\ \E lf \in LedgerFiles : Fresh(parseTransactionsFile(lf), lf)
    /\ builtFrom' = "transactions"
    /\ log' = <<>>

\* Ledger.parseRandomLedger(entitiesFile, ledgerFile, ...): the registry is
\* built from the entities file.  generateTransactions writes random rows;
\* the file is read back from disk by every getBalanceAtDate, so its rows
\* are any rows.
parseRandomLedger ==
    /\ pc # "Replaying"
    /\ ~parsed
    /\ \E ef \in EntityFiles, lf \in LedgerFiles : Fresh(parseEntitiesFile(ef), lf)
    /\ builtFrom' = "entities"
    /\ log' = <<>>

Finish(outcome, ents, res, err) ==
    /\ pc' = outcome
    /\ result' = res
    /\ raised' = err
    /\ log' = Append(log, [date |-> date, start |-> start, applied |-> applied,
                           outcome |-> outcome, result |-> res, raised |-> err,
                           entities |-> ents])

Abort(err) ==
    /\ pc' = "Raised"
    /\ raised' = err
    /\ result' = <<>>
    /\ rowIndex' = 0
    /\ UNCHANGED log

\* Ledger.getBalanceAtDate(date, format): up to the open of the ledger file.
\* hasDate is FALSE for a call with date None.
getBalanceAtDate ==
    /\ pc # "Replaying"
    /\ Len(log) < MaxCalls
    /\ \E hasDate \in BOOLEAN, d \in Dates :
        /\ hasDate \/ d = 1
        /\ date' = IF hasDate THEN d ELSE 0
        /\ start' = entities
        /\ applied' = <<>>
        /\ last' = NoLast
        /\ UNCHANGED <<parsed, entities, ledgerFile, registered, builtFrom>>
        /\ IF ~hasDate
           THEN Abort("NoDate")
           ELSE IF ~parsed
           THEN Abort("IOError")
           ELSE /\ pc' = "Replaying"
                /\ raised' = ""
                /\ result' = <<>>
                /\ rowIndex' = 1
                /\ UNCHANGED log

\* One iteration of the loop of getBalanceAtDate on a data row.
replayRow ==
    /\ pc = "Replaying"
    /\ rowIndex <= Len(ledgerFile)
    /\ LET row == ledgerFile[rowIndex]
           sender == getEntityByName(entities, row.sender)
           receiver == getEntityByName(entities, row.receiver)
           currentDate == row.date
           amount == row.amount
           seen(outcome) ==
               [row |-> rowIndex, sender |-> sender, receiver |-> receiver,
                amount |-> amount, before |-> entities, outcome |-> outcome]
       IN /\ UNCHANGED <<parsed, ledgerFile, registered, builtFrom, date, start>>
          /\ IF due(currentDate, date)
             THEN IF sender = 0
                  THEN /\ Finish("Raised", entities, <<>>, "SenderNotFound")
                       /\ last' = seen("SenderNotFound")
                       /\ UNCHANGED <<entities, rowIndex, applied>>
                  ELSE LET paid == pay(entities, sender, receiver, amount)
                       IN IF paid.raised = ""
                          THEN /\ entities' = paid.entities
                               /\ rowIndex' = rowIndex + 1
                               /\ applied' = Append(applied, rowIndex)
                               /\ last' = seen("applied")
                               /\ UNCHANGED <<pc, result, raised, log>>
                          ELSE /\ Finish("Raised", paid.entities, <<>>, paid.raised)
                               /\ entities' = paid.entities
                               /\ last' = seen(paid.raised)
                               /\ UNCHANGED <<rowIndex, applied>>
             ELSE /\ Finish("Returned", entities, <<[date |-> date, balances |-> snapshot(entities)]>>, "")
                  /\ last' = seen("cutoff")
                  /\ UNCHANGED <<entities, rowIndex, applied>>

\* The loop of getBalanceAtDate runs off the end of the file: the function
\* ends without a return statement.
replayEnd ==
    /\ pc = "Replaying"
    /\ rowIndex > Len(ledgerFile)
    /\ Finish("Returned", entities, <<>>, "")
    /\ UNCHANGED <<parsed, entities, ledgerFile, registered, builtFrom, date,
                 rowIndex, start, applied, last>>

Next ==
    \/ parseLedger
    \/ parseRandomLedger
    \/ getBalanceAtDate
    \/ replayRow
    \/ replayEnd

Spec == Init /\ [][Next]_vars

\* ------------------------------------------------------------ claim helpers
RECURSIVE SumBalances(_)
SumBalances(ents) ==
    IF ents = <<>> THEN 0 ELSE ents[1].balance + SumBalances(Tail(ents))

Balances(ents) == [i \in 1..Len(ents) |-> ents[i].balance]

\* A name is in the registry, whatever its letter case.
Known(ents, name) == \E i \in 1..Len(ents) : lower(ents[i].name) = lower(name)

\* The entity a name stands for: the first one registered under it.
Resolve(ents, name) ==
    CHOOSE i \in 1..Len(ents) :
        /\ lower(ents[i].name) = lower(name)
        /\ \A j \in 1..(i - 1) : lower(ents[j].name) # lower(name)

\* Position of the first row dated after d, Len + 1 when there is none.
FirstAfter(lf, d) ==
    LET after == {k \in 1..Len(lf) : lf[k].date > d}
    IN IF after = {} THEN Len(lf) + 1 ELSE CHOOSE k \in after : \A j \in after : k <= j

Sorted(lf) == \A k \in 1..(Len(lf) - 1) : lf[k].date <= lf[k + 1].date

IsPrefix(s, t) == Len(s) <= Len(t) /\ \A k \in 1..Len(s) : s[k] = t[k]

UpTo(n) == [k \in 1..n |-> k]

\* The balance the transfers of the rows in idxs add to entity i: minus the
\* amount of every row it sends, plus the amount of every row it receives.
RECURSIVE NetEffect(_, _, _, _)
NetEffect(ents, lf, idxs, i) ==
    IF idxs = <<>> THEN 0
    ELSE LET row == lf[idxs[1]]
         IN (IF Resolve(ents, row.receiver) = i THEN row.amount ELSE 0)
            - (IF Resolve(ents, row.sender) = i THEN row.amount ELSE 0)
            + NetEffect(ents, lf, Tail(idxs), i)

SelfTransfer(ents, row) ==
    lower(row.sender) = lower(row.receiver)

\* The running or last call reached the loop over the rows.
InReplay == rowIndex >= 1

\* Entity.pay ran on the row handled last.
PayRan == last.outcome \in {"applied", "PayerNotAllowed", "InvalidReceiver"}

\* ------------------------------------------------------------------ claims
\* C1: during a replay the sum of the balances of all entities equals the sum
\* at the start of the replay, also after a row whose sender and receiver
\* resolve to the same entity.
C1_Conservation == InReplay => SumBalances(entities) = SumBalances(start)

\* C2: the replay applies the rows in stream order, each once: at every point
\* the applied rows are exactly the rows before the one the loop is at, all
\* dated on or before the cutoff and all before the first row dated after it;
\* when the replay returns, every row before the first row dated after the
\* cutoff has been applied and no row from that one on, and a snapshot is
\* returned at that row.
C2_CutoffRule ==
    InReplay =>
        LET first == FirstAfter(ledgerFile, date)
        IN /\ applied = UpTo(Len(applied))
           /\ Len(applied) < first
           /\ \A k \in 1..Len(applied) : ledgerFile[applied[k]].date <= date
           /\ pc = "Replaying" => rowIndex = Len(applied) + 1 /\ rowIndex <= first
           /\ pc = "Returned" => Len(applied) = first - 1 /\ rowIndex = first
           /\ (pc = "Returned" /\ first <= Len(ledgerFile)) =>
                 /\ last.outcome = "cutoff" /\ last.row = first
                 /\ result # <<>>

\* C2 witness: an unsorted stream; the replay returned at a first row dated
\* after the cutoff although the next row is dated on or before it.
C2_Witness ==
    /\ pc = "Returned" /\ result # <<>>
    /\ rowIndex = 1 /\ Len(ledgerFile) > 1
    /\ ledgerFile[2].date <= date
    /\ applied = <<>> /\ entities = start

\* C3: a replay whose stream is exhausted with no row dated after the cutoff
\* returns a snapshot of every entity of the registry.
C3_EndOfStreamSnapshot ==
    (pc = "Returned" /\ InReplay /\ rowIndex > Len(ledgerFile)) =>
        /\ result # <<>>
        /\ \A k \in 1..Len(result) : result[k].balances = snapshot(entities)

\* C4: every snapshot a replay returns gives each entity the balance it was
\* registered with plus the net effect of the rows that replay applied,
\* whatever replays came before it (stated for replays that applied no
\* transfer from an entity to itself).
C4_Repeatable ==
    \A c \in 1..Len(log) :
        (/\ log[c].result # <<>>
         /\ \A k \in 1..Len(log[c].applied) :
                ~SelfTransfer(registered, ledgerFile[log[c].applied[k]])) =>
            \A i \in 1..Len(registered) :
                log[c].result[1].balances[i].balance =
                    registered[i].balance
                    + NetEffect(registered, ledgerFile, log[c].applied, i)

\* C5: Entity.pay from an entity whose type is not allowed to pay fails with
\* the payer-not-allowed error, whatever the amount and the receiver (absent
\* receiver included), and changes no balance.
C5_Eligibility ==
    (/\ last.outcome \notin {"none", "cutoff", "SenderNotFound"}
     /\ last.before[last.sender].type \notin {"person", None}) =>
        /\ last.outcome = "PayerNotAllowed"
        /\ pc = "Raised" /\ raised = "PayerNotAllowed"
        /\ entities = last.before

\* C5 witness: a payment from a company to a receiver that is absent failed
\* with the payer-not-allowed error.
C5_Witness ==
    /\ last.outcome = "PayerNotAllowed"
    /\ last.receiver = 0
    /\ last.before[last.sender].type = "company"

\* C6: after a successful transfer between two distinct entities the sender
\* holds its balance before minus the amount and the receiver its balance
\* before plus the amount.
C6_ExactDebitCredit ==
    (last.outcome = "applied" /\ last.sender # last.receiver) =>
        /\ entities[last.sender].balance =
               last.before[last.sender].balance - last.amount
        /\ entities[last.receiver].balance =
               last.before[last.receiver].balance + last.amount

C6_Witness ==
    /\ last.outcome = "applied"
    /\ last.sender # last.receiver
    /\ last.amount = 30
    /\ entities[last.sender].balance = 70
    /\ entities[last.receiver].balance = 130

\* C7 as claimed: Entity.pay with an absent receiver always fails with the
\* invalid-receiver error and changes no balance.
C7_AbsentReceiver ==
    (PayRan /\ last.receiver = 0) =>
        /\ pc = "Raised" /\ raised = "InvalidReceiver"
        /\ entities = last.before

\* C7 amended: Entity.pay with an absent receiver always fails and changes no
\* balance; the error is the invalid-receiver error when the sender's type is
\* allowed to pay and the payer-not-allowed error when it is not.
C7_AbsentReceiverAmended ==
    (PayRan /\ last.receiver = 0) =>
        /\ pc = "Raised"
        /\ raised = IF last.before[last.sender].type \in {"person", None}
                    THEN "InvalidReceiver" ELSE "PayerNotAllowed"
        /\ entities = last.before

C7_Witness ==
    /\ PayRan /\ last.receiver = 0
    /\ raised = "InvalidReceiver"
    /\ last.before[last.sender].type = "person"
    /\ last.amount = 30

\* C8: a row dated on or before the cutoff whose sender or receiver is not in
\* the registry, or whose sender may not pay, ends the replay with an error:
\* nothing is returned, the row changes no balance, no later row is applied,
\* and no such row is passed over (every row the loop has gone past had a
\* known sender, a known receiver and a sender allowed to pay).
C8_FailureAborts ==
    InReplay =>
        /\ \A k \in 1..(rowIndex - 1) :
              /\ Known(entities, ledgerFile[k].sender)
              /\ Known(entities, ledgerFile[k].receiver)
              /\ entities[Resolve(entities, ledgerFile[k].sender)].type
                     \in {"person", None}
        /\ (/\ pc # "Replaying"
            /\ rowIndex <= Len(ledgerFile)
            /\ ledgerFile[rowIndex].date <= date) =>
              /\ pc = "Raised" /\ result = <<>>
              /\ raised \in {"SenderNotFound", "InvalidReceiver", "PayerNotAllowed"}
              /\ last.row = rowIndex
              /\ entities = last.before
              /\ applied = UpTo(rowIndex - 1)
              /\ \/ ~Known(entities, ledgerFile[rowIndex].sender)
                 \/ ~Known(entities, ledgerFile[rowIndex].receiver)
                 \/ entities[Resolve(entities, ledgerFile[rowIndex].sender)].type
                        \notin {"person", None}

\* C8 witness: the first row failed because its sender may not pay, and the
\* second row, dated on or before the cutoff, was not applied.
C8_Witness ==
    /\ pc = "Raised" /\ raised = "PayerNotAllowed"
    /\ rowIndex = 1 /\ Len(ledgerFile) > 1
    /\ ledgerFile[2].date <= date
    /\ Known(entities, ledgerFile[1].receiver)
    /\ entities = start

\* C9: for a stream sorted by date, of two replays that start from the same
\* registry with cutoffs D1 <= D2, the rows applied for D1 are a prefix of
\* the rows applied for D2.
C9_CutoffMonotonic ==
    \A c1, c2 \in 1..Len(log) :
        (/\ Sorted(ledgerFile)
         /\ log[c1].start = log[c2].start
         /\ log[c1].date <= log[c2].date) =>
            IsPrefix(log[c1].applied, log[c2].applied)

\* C9 witness: two replays of a sorted stream from the same registry, the
\* one with the later cutoff applying a row more than the other, which
\* applied one.
C9_Witness ==
    \E c1, c2 \in 1..Len(log) :
        /\ Sorted(ledgerFile)
        /\ log[c1].start = log[c2].start
        /\ log[c1].date < log[c2].date
        /\ log[c1].applied # <<>>
        /\ Len(log[c1].applied) < Len(log[c2].applied)

\* C10: a registry that was built from an entities file or from a
\* transactions file holds no two entities whose names are equal but for
\* letter case.
C10_UniqueNames ==
    parsed =>
        \A i, j \in 1..Len(entities) :
            i # j => lower(entities[i].name) # lower(entities[j].name)

\* C11: every entity of a registry built from a transactions file has type
\* None and balance 0 and may pay, so no replay over that registry and that
\* file fails with the payer-not-allowed error.
C11_LazyEntitiesMayPay ==
    builtFrom = "transactions" =>
        /\ \A i \in 1..Len(registered) :
              /\ registered[i].type = None
              /\ registered[i].balance = 0
              /\ entities[i].type \in {"person", None}
        /\ raised # "PayerNotAllowed"
        /\ \A c \in 1..Len(log) : log[c].raised # "PayerNotAllowed"

\* C11 witness: a replay over a registry built from a transactions file
\* applied a row and returned.
C11_Witness ==
    /\ builtFrom = "transactions"
    /\ pc = "Returned"
    /\ last.outcome = "applied"
    /\ entities[last.sender].type = None

\* C12: an entity registered from an entities file with an empty type is an
\* entity of unset type: a transfer it sends to a present receiver succeeds.
C12_EmptyCategoryPays ==
    (PayRan /\ last.receiver # 0 /\ last.before[last.sender].type = "") =>
        /\ last.outcome = "applied"
        /\ raised = ""

\* The spellings of one name: strings that differ in letter case only.
Spellings ==
    {{"alice", "Alice", "ALICE"}, {"bob", "Bob", "BOB"}, {"carol", "Carol", "CAROL"}}

SameButCase(n1, n2) == \E sp \in Spellings : n1 \in sp /\ n2 \in sp

\* C13: two names that differ in letter case only look up the same entity,
\* an entity registered under a spelling of them, so a transfer changes the
\* balance of that entity whatever the spelling in the row; a name with no
\* spelling in the registry looks up no entity.
C13_CaseInsensitiveLookup ==
    parsed =>
        /\ \A sp \in Spellings :
              LET found == {getEntityByName(entities, n) : n \in sp}
              IN /\ Cardinality(found) = 1
                 /\ \A e \in found :
                       /\ (e # 0) => (entities[e].name \in sp)
                       /\ (e = 0) <=>
                             (\A i \in 1..Len(entities) : entities[i].name \notin sp)
        /\ PayRan =>
              /\ SameButCase(entities[last.sender].name, ledgerFile[last.row].sender)
              /\ (last.receiver # 0) =>
                    SameButCase(entities[last.receiver].name,
                                ledgerFile[last.row].receiver)
              /\ (last.receiver = 0) =>
                    (\A i \in 1..Len(entities) :
                        ~SameButCase(entities[i].name, ledgerFile[last.row].receiver))

\* C13 witness: the registry holds "Alice"; a row that names the receiver
\* "ALICE" followed by a row that names the sender "alice" credited and then
\* debited that entity.
C13_Witness ==
    /\ builtFrom = "entities"
    /\ Len(applied) = 2
    /\ last.outcome = "applied" /\ last.row = 2
    /\ ledgerFile[1].receiver = "ALICE" /\ ledgerFile[1].sender = "bob"
    /\ ledgerFile[2].sender = "alice" /\ ledgerFile[2].receiver = "bob"
    /\ entities[last.sender].name = "Alice"
    /\ ledgerFile[1].amount = 30
    /\ entities[last.sender].balance = 100

\* C14: a snapshot that a replay returns holds one (name, balance) pair for
\* every entity of the registry, in the order of the registry, with the
\* balance the entity has; producing it changes no balance, and of two
\* successive replays that return a snapshot, the second having applied no
\* transfer, both return the same pairs.
C14_SnapshotContent ==
    /\ result # <<>> =>
          /\ Len(result) = 1
          /\ result[1].date = date
          /\ Len(result[1].balances) = Len(entities)
          /\ \A i \in 1..Len(entities) :
                /\ result[1].balances[i].name = entities[i].name
                /\ result[1].balances[i].balance = entities[i].balance
          /\ entities = last.before
    /\ \A c \in 1..Len(log) :
          log[c].result # <<>> =>
              /\ Len(log[c].result[1].balances) = Len(log[c].entities)
              /\ \A i \in 1..Len(log[c].entities) :
                    /\ log[c].result[1].balances[i].name = log[c].entities[i].name
                    /\ log[c].result[1].balances[i].balance =
                           log[c].entities[i].balance
    /\ \A c \in 1..(Len(log) - 1) :
          (/\ log[c].result # <<>>
           /\ log[c + 1].result # <<>>
           /\ log[c + 1].applied = <<>>) =>
              log[c + 1].result[1].balances = log[c].result[1].balances

\* C14 witness: a replay applied a transfer between two entities and
\* returned a snapshot with their two different balances.
C14_Witness ==
    /\ result # <<>>
    /\ applied # <<>>
    /\ Len(entities) = 2
    /\ result[1].balances[1].balance = 70
    /\ result[1].balances[2].balance = 130
    /\ result[1].balances[1].name = "Alice"

\* C15: every row a replay applies as a transfer has an amount >= 0; a row
\* with a negative amount is never applied.
C15_NonNegativeAmounts ==
    /\ last.outcome = "applied" => last.amount >= 0
    /\ \A k \in 1..Len(applied) : ledgerFile[applied[k]].amount >= 0

\* C16: a transfer of an amount >= 0 from a sender that may pay to a present
\* receiver succeeds whatever the sender's balance, also when the amount is
\* above it; the sender's balance then goes below zero.  No replay fails for
\* another reason than an unknown sender, an absent receiver or a sender
\* that may not pay.
C16_NoOverdraftCheck ==
    /\ (/\ PayRan
        /\ last.receiver # 0
        /\ last.before[last.sender].type \in {"person", None}
        /\ last.amount >= 0) =>
           /\ last.outcome = "applied"
           /\ raised = ""
           /\ (last.sender # last.receiver) =>
                 (entities[last.sender].balance =
                     last.before[last.sender].balance - last.amount)
    /\ (InReplay /\ pc = "Raised") =>
           raised \in {"SenderNotFound", "InvalidReceiver", "PayerNotAllowed"}

\* C16 witness: an entity with balance 0 paid 30 to another entity and is
\* left with -30.
C16_Witness ==
    /\ last.outcome = "applied"
    /\ last.sender # last.receiver
    /\ last.amount = 30
    /\ last.before[last.sender].balance = 0
    /\ entities[last.sender].balance = -30

\* C17: when a replay fails at row k, the rows 1..k-1 stay applied and every
\* balance is the balance at the start of the replay plus the net effect of
\* the transfers of those rows.
C17_NoRollback ==
    (InReplay /\ pc = "Raised") =>
        /\ applied = UpTo(rowIndex - 1)
        /\ \A i \in 1..Len(entities) :
              entities[i].balance =
                  start[i].balance + NetEffect(start, ledgerFile, applied, i)

\* C18: a replay changes neither the number, the order, the names nor the
\* types of the entities; a row that is applied changes no balance but those
\* of the sender and the receiver it resolves to, and a row that is not
\* applied changes no balance.
C18_Frame ==
    InReplay =>
        /\ Len(entities) = Len(start)
        /\ \A i \in 1..Len(entities) :
              /\ entities[i].name = start[i].name
              /\ entities[i].type = start[i].type
        /\ last.outcome = "applied" =>
              \A i \in 1..Len(entities) :
                  i \notin {last.sender, last.receiver} =>
                      entities[i] = last.before[i]
        /\ last.outcome \in {"cutoff", "SenderNotFound", "InvalidReceiver",
                             "PayerNotAllowed"} => entities = last.before
        /\ last.outcome = "none" => entities = start

\* C18 witness: a row was applied between two entities of a registry that
\* holds other entities too.
C18_Witness ==
    /\ last.outcome = "applied"
    /\ last.sender # last.receiver
    /\ Len(entities) > 2
    /\ entities[last.receiver].balance = 30
    /\ \E i \in 1..Len(entities) :
          i \notin {last.sender, last.receiver} /\ entities[i] = start[i]

====
